---- MODULE Spec2Model ----
(***************************************************************************)
(* A model of flag.h (command-line flag parsing): the process-wide         *)
(* Flag_Context, the three declaration functions and flag_parse.           *)
(*                                                                         *)
(* A C string is a sequence of one-character strings, a uint64_t is its    *)
(* canonical sequence of decimal digits (TLC's integers are narrower than  *)
(* 64 bits), a pointer into argv is the suffix of argv it points at.       *)
(***************************************************************************)
EXTENDS Integers, Sequences, FiniteSets, TLC

\* ------------------------------------------------------------------ bounds
MaxFlags == 2
MaxArgs == 3
MaxCalls == 2
MaxNumArgs == 2
MaxEdgeArgs == 2
MaxPrintArgs == 2

\* ------------------------------------------------------- program constants
FLAGS_CAP == 256

FLAG_BOOL == "FLAG_BOOL"
FLAG_UINT64 == "FLAG_UINT64"
FLAG_STR == "FLAG_STR"

FLAG_NO_ERROR == "FLAG_NO_ERROR"
FLAG_ERROR_UNKNOWN == "FLAG_ERROR_UNKNOWN"
FLAG_ERROR_NO_VALUE == "FLAG_ERROR_NO_VALUE"
FLAG_ERROR_INVALID_NUMBER == "FLAG_ERROR_INVALID_NUMBER"
FLAG_ERROR_INTEGER_OVERFLOW == "FLAG_ERROR_INTEGER_OVERFLOW"

\* errno: untouched since process start, or ERANGE
ENONE == "ENONE"
ERANGE == "ERANGE"

\* the null pointer, as a char* and as a char**
NULL == <<"NULL">>
NULLV == <<>>

\* ------------------------------------------------------------- uint64_t
Zero == <<0>>
ULLONG_MAX == <<1,8,4,4,6,7,4,4,0,7,3,7,0,9,5,5,1,6,1,5>>

RECURSIVE Norm(_)
\* the canonical digits of a digit sequence: no leading zero, <<0>> for zero
Norm(ds) ==
    IF Len(ds) = 0 THEN Zero
    ELSE IF Len(ds) > 1 /\ ds[1] = 0 THEN Norm(Tail(ds))
    ELSE ds

RECURSIVE LexLeq(_, _)
LexLeq(a, b) ==
    IF Len(a) = 0 THEN TRUE
    ELSE IF a[1] # b[1] THEN a[1] < b[1]
    ELSE LexLeq(Tail(a), Tail(b))

\* a <= b for canonical digit sequences
Leq(a, b) ==
    IF Len(a) # Len(b) THEN Len(a) < Len(b) ELSE LexLeq(a, b)

Pad(ds, n) ==
    [k \in 1..n |-> IF k <= n - Len(ds) THEN 0 ELSE ds[k - (n - Len(ds))]]

RECURSIVE SubDigits(_, _, _, _)
\* digits 1..k of a - b (same length, a >= b), given the borrow into digit k
SubDigits(a, b, k, borrow) ==
    IF k = 0 THEN <<>>
    ELSE LET d == a[k] - b[k] - borrow
         IN  Append(SubDigits(a, b, k - 1, IF d < 0 THEN 1 ELSE 0),
                    IF d < 0 THEN d + 10 ELSE d)

RECURSIVE AddOne(_, _)
AddOne(ds, k) ==
    IF k = 0 THEN <<1>> \o ds
    ELSE IF ds[k] = 9 THEN AddOne([ds EXCEPT ![k] = 0], k - 1)
    ELSE [ds EXCEPT ![k] = ds[k] + 1]

\* -v in unsigned long long arithmetic: (2^64 - v) % 2^64, for v <= ULLONG_MAX
Negate(v) ==
    IF v = Zero THEN Zero
    ELSE LET n == Len(ULLONG_MAX)
         IN  Norm(AddOne(SubDigits(ULLONG_MAX, Pad(v, n), n, 0), n))

\* ------------------------------------------------------------- <ctype.h>
DigitChars == <<"0", "1", "2", "3", "4", "5", "6", "7", "8", "9">>

isdigit(ch) == \E d \in 1..Len(DigitChars) : DigitChars[d] = ch

DigitVal(ch) == (CHOOSE d \in 1..Len(DigitChars) : DigitChars[d] = ch) - 1

isspace(ch) == ch \in {" ", "\t", "\n", "\r", "\f"}

\* ------------------------------------------------------------- strtoull
RECURSIVE SkipSpace(_, _)
SkipSpace(s, i) ==
    IF i <= Len(s) /\ isspace(s[i]) THEN SkipSpace(s, i + 1) ELSE i

RECURSIVE ScanDigits(_, _)
ScanDigits(s, i) ==
    IF i <= Len(s) /\ isdigit(s[i]) THEN ScanDigits(s, i + 1) ELSE i

\* strtoull(nptr, &endptr, 10) with errno = err before the call.  endptr is the
\* index in nptr of the first character not converted (Len(nptr) + 1 is the
\* terminating '\0'); with no digits it is nptr itself and errno is left alone.
strtoull(nptr, err) ==
    LET i0 == SkipSpace(nptr, 1)
        neg == i0 <= Len(nptr) /\ nptr[i0] = "-"
        i1 == IF i0 <= Len(nptr) /\ nptr[i0] \in {"+", "-"} THEN i0 + 1 ELSE i0
        i2 == ScanDigits(nptr, i1)
        v  == Norm([k \in 1..(i2 - i1) |-> DigitVal(nptr[i1 + k - 1])])
    IN  IF i2 = i1 THEN [result |-> Zero, endptr |-> 1, errno |-> err]
        ELSE IF ~Leq(v, ULLONG_MAX)
             THEN [result |-> ULLONG_MAX, endptr |-> i2, errno |-> ERANGE]
        ELSE [result |-> IF neg THEN Negate(v) ELSE v, endptr |-> i2, errno |-> err]

\* ------------------------------------------------------------ the registry
\* memset(flag, 0, sizeof(*flag)) on a Flag_Value.  The code only ever reads
\* the member of the union that the flag's type selects, so the members are
\* kept apart here and the two the type does not select stay zero.
ZeroValue == [as_str |-> NULL, as_uint64 |-> Zero, as_bool |-> FALSE]

\* the Flag that flag_new leaves in c->flags[c->flags_count++]
flag_new(type, name, desc) ==
    [type |-> type, name |-> name, desc |-> desc, val |-> ZeroValue, def |-> ZeroValue]

\* ---------------------------------------------------------------- state
VARIABLES
    flags,              \* c->flags[0 .. c->flags_count - 1]
    flag_error,         \* c->flag_error
    flag_error_name,    \* c->flag_error_name
    rest_argc,          \* c->rest_argc
    rest_argv,          \* c->rest_argv: the argv suffix it points at
    errno,              \* the C library's errno
    rets,               \* the values returned by the flag_parse calls so far
    last,               \* the operation just performed, with flag_parse's
                        \* arguments, return value and the state it started from
    declared            \* the declaring calls so far, in the order they were made

vars ==
    <<flags, flag_error, flag_error_name, rest_argc, rest_argv, errno, rets, last,
      declared>>

flags_count == Len(flags)

\* flag_global_context (and errno) as one value
Flag_Context ==
    [flags |-> flags, flag_error |-> flag_error, flag_error_name |-> flag_error_name,
     rest_argc |-> rest_argc, rest_argv |-> rest_argv, errno |-> errno]

\* ------------------------------------------------------------ flag_parse
\* the part of argv that the pointer args + (p - 1) points at
Suffix(args, p) == SubSeq(args, p, Len(args))

\* flag_shift_args(&argc, &argv), argv being args + (p - 1); args[Len(args) + 1]
\* is the null pointer that ends argv
flag_shift_args(args, argc, p) ==
    [result |-> IF p <= Len(args) THEN args[p] ELSE NULL,
     argc |-> argc - 1, argv |-> p + 1, assert_ok |-> argc > 0]

\* is_positional taking a dash with nothing after it for a positional argument
is_positional_lone_dash(flag) == Len(flag) <= 1 \/ flag[1] # "-"

\* *flag != '-'
is_positional(flag) == Len(flag) = 0 \/ flag[1] # "-"

\* is_terminator with the comparison's "== 0" left out
is_terminator_negated(flag) == flag # <<"-", "-">>

\* strcmp(flag, "--") == 0
is_terminator(flag) == flag = <<"-", "-">>

\* remove_dash without the increment
remove_dash_forgotten(flag) == flag

\* flag += 1
remove_dash(flag) == Tail(flag)

\* strcmp(c->flags[i].name, flag) == 0
name_matches(f, flag) == f.name = flag

\* push_back_rest without pushing the token back
push_back_rest_dropped(c, args, argc, p) ==
    [c EXCEPT !.rest_argc = argc, !.rest_argv = Suffix(args, p)]

\* c->rest_argc = argc + 1; c->rest_argv = argv - 1, argv being args + (p - 1)
push_back_rest(c, args, argc, p) ==
    [c EXCEPT !.rest_argc = argc + 1, !.rest_argv = Suffix(args, p - 1)]

\* set_rest without its two assignments
set_rest_forgotten(c, args, argc, p) == c

\* c->rest_argc = argc; c->rest_argv = argv
set_rest(c, args, argc, p) ==
    [c EXCEPT !.rest_argc = argc, !.rest_argv = Suffix(args, p)]

\* set_error that empties the leftovers as well
set_error_rest_cleared(c, err, flag) ==
    [c EXCEPT !.flag_error = err, !.flag_error_name = flag,
              !.rest_argc = 0, !.rest_argv = NULLV]

\* set_error without the assignment to c->flag_error_name
set_error_name_kept(c, err, flag) == [c EXCEPT !.flag_error = err]

\* c->flag_error = err; c->flag_error_name = flag
set_error(c, err, flag) ==
    [c EXCEPT !.flag_error = err, !.flag_error_name = flag]

\* c->flags[i].val.as_bool = true
set_bool(c, i) == [c EXCEPT !.flags[i].val.as_bool = TRUE]

\* set_str writing the default along with the value
set_str_def_too(c, i, arg) ==
    [c EXCEPT !.flags[i].val.as_str = arg, !.flags[i].def.as_str = arg]

\* c->flags[i].val.as_str = arg
set_str(c, i, arg) == [c EXCEPT !.flags[i].val.as_str = arg]

\* c->flags[i].val.as_uint64 = result
set_uint64(c, i, result) == [c EXCEPT !.flags[i].val.as_uint64 = result]

\* no_value testing for one argument left
no_value_one_left(argc) == argc = 1

\* no_value testing for fewer than no arguments
no_value_never(argc) == argc < 0

\* argc == 0 when a value is wanted
no_value(argc) == argc = 0

\* arg == endptr || *endptr != '\0'
invalid_number(arg, endptr) == endptr = 1 \/ endptr <= Len(arg)

\* result == ULLONG_MAX && errno == ERANGE
integer_overflow(result, err) == result = ULLONG_MAX /\ err = ERANGE

RECURSIVE flag_parse_for(_, _, _, _, _, _, _, _)
\* the for loop over c->flags from index i on, for the token whose text after
\* the dash is flag; returned = flag_parse has returned false inside the loop
flag_parse_for(c, args, flag, i, argc, p, found, ok) ==
    IF i > Len(c.flags)
    THEN [returned |-> FALSE, c |-> c, argc |-> argc, argv |-> p, found |-> found,
          assert_ok |-> ok]
    ELSE IF ~name_matches(c.flags[i], flag)
    THEN flag_parse_for(c, args, flag, i + 1, argc, p, found, ok)
    ELSE IF c.flags[i].type = FLAG_BOOL
    THEN flag_parse_for(set_bool(c, i), args, flag, i + 1, argc, p, TRUE, ok)
    ELSE IF no_value(argc)
    THEN [returned |-> TRUE, c |-> set_error(c, FLAG_ERROR_NO_VALUE, flag),
          argc |-> argc, argv |-> p, found |-> found, assert_ok |-> ok]
    ELSE LET sh == flag_shift_args(args, argc, p)
             arg == sh.result
             ok1 == ok /\ sh.assert_ok
         IN  IF c.flags[i].type = FLAG_STR
             THEN flag_parse_for(set_str(c, i, arg), args, flag, i + 1,
                                 sh.argc, sh.argv, TRUE, ok1)
             ELSE LET r == strtoull(arg, c.errno)
                      c1 == [c EXCEPT !.errno = r.errno]
                  IN  IF invalid_number(arg, r.endptr)
                      THEN [returned |-> TRUE,
                            c |-> set_error(c1, FLAG_ERROR_INVALID_NUMBER, flag),
                            argc |-> sh.argc, argv |-> sh.argv, found |-> found,
                            assert_ok |-> ok1]
                      ELSE IF integer_overflow(r.result, r.errno)
                      THEN [returned |-> TRUE,
                            c |-> set_error(c1, FLAG_ERROR_INTEGER_OVERFLOW, flag),
                            argc |-> sh.argc, argv |-> sh.argv, found |-> found,
                            assert_ok |-> ok1]
                      ELSE flag_parse_for(set_uint64(c1, i, r.result), args, flag, i + 1,
                                          sh.argc, sh.argv, TRUE, ok1)

RECURSIVE flag_parse_loop(_, _, _, _, _, _)
\* while (argc > 0) { ... } and the code after it; trace lists the indices in
\* args of the tokens taken in flag position (flag = flag_shift_args(...)),
\* argv is the local pointer argv at the return, as an index in args
flag_parse_loop(c, args, argc, p, trace, ok) ==
    IF ~(argc > 0)
    THEN [ret |-> TRUE, c |-> set_rest(c, args, argc, p), trace |-> trace, assert_ok |-> ok,
          argv |-> p]
    ELSE LET sh == flag_shift_args(args, argc, p)
             flag == sh.result
             tr == Append(trace, p)
             ok1 == ok /\ sh.assert_ok
         IN  IF is_positional(flag)
             THEN [ret |-> TRUE, c |-> push_back_rest(c, args, sh.argc, sh.argv),
                   trace |-> tr, assert_ok |-> ok1, argv |-> sh.argv]
             ELSE IF is_terminator(flag)
             THEN [ret |-> TRUE, c |-> set_rest(c, args, sh.argc, sh.argv),
                   trace |-> tr, assert_ok |-> ok1, argv |-> sh.argv]
             ELSE LET name == remove_dash(flag)
                      f == flag_parse_for(c, args, name, 1, sh.argc, sh.argv, FALSE, ok1)
                  IN  IF f.returned
                      THEN [ret |-> FALSE, c |-> f.c, trace |-> tr, assert_ok |-> f.assert_ok,
                            argv |-> f.argv]
                      ELSE IF ~f.found
                      THEN [ret |-> FALSE, c |-> set_error(f.c, FLAG_ERROR_UNKNOWN, name),
                            trace |-> tr, assert_ok |-> f.assert_ok, argv |-> f.argv]
                      ELSE flag_parse_loop(f.c, args, f.argc, f.argv, tr, f.assert_ok)

\* flag_parse_result without the first flag_shift_args
flag_parse_result_program_name_kept(c, args) ==
    flag_parse_loop(c, args, Len(args), 1, <<>>, TRUE)

\* flag_parse(argc, argv) with argc = Len(args), started in context c
flag_parse_result(c, args) ==
    LET sh == flag_shift_args(args, Len(args), 1)
    IN  flag_parse_loop(c, args, sh.argc, sh.argv, <<>>, sh.assert_ok)

\* ---------------------------------------------------------------- inputs
Names == {<<"v">>, <<"n">>}
Descs == {<<"d">>}
Prog == <<"p">>
StrDefaults == {NULL}
Uint64Defaults == {<<3>>}

\* a flag token for each name, the terminator, and a token that is at once a
\* positional argument, a string value and a number
Tokens == {<<"-", "v">>, <<"-", "n">>, <<"-", "-">>, <<"7">>}

SeqsUpTo(S, n) == UNION {[1..k -> S] : k \in 0..n}

\* argument vectors: the program name, then at most MaxArgs tokens
ArgLists == {<<Prog>> \o s : s \in SeqsUpTo(Tokens, MaxArgs)}

MaxDigits == <<"1","8","4","4","6","7","4","4","0","7","3","7","0","9","5","5","1","6","1","5">>
MaxPlusOneDigits == <<"1","8","4","4","6","7","4","4","0","7","3","7","0","9","5","5","1","6","1","6">>
TwentyNines == <<"9","9","9","9","9","9","9","9","9","9","9","9","9","9","9","9","9","9","9","9">>

\* value tokens for an integer flag: digits, signs, blanks, other text, the
\* greatest uint64_t and two numbers beyond it
NumTokens ==
    {<<"-", "n">>, <<>>, <<"7">>, <<"0", "0", "7">>, <<"-", "1">>, <<"+", "7">>,
     <<" ", "7">>, <<"7", " ">>, <<"7", "x">>, <<"x">>,
     MaxDigits, MaxPlusOneDigits, TwentyNines}

NumArgLists == {<<Prog>> \o s : s \in SeqsUpTo(NumTokens, MaxNumArgs)}

\* ------------------------------------------------- the printing functions
\* "%" PRIu64: the decimal digits of the value, without leading zeros
PRIu64(v) == [i \in 1..Len(Norm(v)) |-> DigitChars[Norm(v)[i] + 1]]

Indent4Dash ==
    <<" ", " ", " ", " ", "-">>
Indent8 ==
    <<" ", " ", " ", " ", " ", " ", " ", " ">>
Indent8Default ==
    <<" ", " ", " ", " ", " ", " ", " ", " ", "D", "e", "f", "a", "u", "l",
      "t", ":", " ">>
Newline == <<"\n">>
TrueText == <<"t", "r", "u", "e">>
FalseText == <<"f", "a", "l", "s", "e">>

\* what one pass of flag_print_options' loop writes for a flag
flag_print_options_flag(flag) ==
    Indent4Dash \o flag.name \o Newline
    \o Indent8 \o flag.desc \o Newline
    \o CASE flag.type = FLAG_BOOL ->
              IF flag.def.as_bool
              THEN Indent8Default \o (IF flag.def.as_bool THEN TrueText ELSE FalseText)
                   \o Newline
              ELSE <<>>
         [] flag.type = FLAG_UINT64 ->
              Indent8Default \o PRIu64(flag.def.as_uint64) \o Newline
         [] flag.type = FLAG_STR ->
              IF flag.def.as_str # NULL
              THEN Indent8Default \o flag.def.as_str \o Newline
              ELSE <<>>

RECURSIVE flag_print_options_from(_, _)
\* what flag_print_options' loop writes from flag i on
flag_print_options_from(c, i) ==
    IF i > Len(c.flags) THEN <<>>
    ELSE flag_print_options_flag(c.flags[i]) \o flag_print_options_from(c, i + 1)

NoErrorText ==
    <<"O", "p", "e", "r", "a", "t", "i", "o", "n", " ", "F", "a", "i", "l",
      "e", "d", " ", "S", "u", "c", "c", "e", "s", "s", "f", "u", "l", "l",
      "y", "!", " ", "P", "l", "e", "a", "s", "e", " ", "t", "e", "l", "l",
      " ", "t", "h", "e", " ", "d", "e", "v", "e", "l", "o", "p", "e", "r",
      " ", "o", "f", " ", "t", "h", "i", "s", " ", "s", "o", "f", "t", "w",
      "a", "r", "e", " ", "t", "h", "a", "t", " ", "t", "h", "e", "y", " ",
      "d", "o", "n", "'", "t", " ", "k", "n", "o", "w", " ", "w", "h", "a",
      "t", " ", "t", "h", "e", "y", " ", "a", "r", "e", " ", "d", "o", "i",
      "n", "g", "!", " ", ":", ")">>
ErrorDash ==
    <<"E", "R", "R", "O", "R", ":", " ", "-">>
UnknownFlagText ==
    <<":", " ", "u", "n", "k", "n", "o", "w", "n", " ", "f", "l", "a", "g",
      "\n">>
NoValueText ==
    <<":", " ", "n", "o", " ", "v", "a", "l", "u", "e", " ", "p", "r", "o",
      "v", "i", "d", "e", "d", "\n">>
InvalidNumberText ==
    <<":", " ", "i", "n", "v", "a", "l", "i", "d", " ", "n", "u", "m", "b",
      "e", "r", "\n">>
IntegerOverflowText ==
    <<":", " ", "i", "n", "t", "e", "g", "e", "r", " ", "o", "v", "e", "r",
      "f", "l", "o", "w", "\n">>

\* what flag_print_error writes in context c
flag_print_error_text(c) ==
    CASE c.flag_error = FLAG_NO_ERROR -> NoErrorText
      [] c.flag_error = FLAG_ERROR_UNKNOWN ->
            ErrorDash \o c.flag_error_name \o UnknownFlagText
      [] c.flag_error = FLAG_ERROR_NO_VALUE ->
            ErrorDash \o c.flag_error_name \o NoValueText
      [] c.flag_error = FLAG_ERROR_INVALID_NUMBER ->
            ErrorDash \o c.flag_error_name \o InvalidNumberText
      [] c.flag_error = FLAG_ERROR_INTEGER_OVERFLOW ->
            ErrorDash \o c.flag_error_name \o IntegerOverflowText

\* the tokens of the main pool and a number beyond uint64_t
PrintTokens == Tokens \cup {MaxPlusOneDigits}

PrintArgLists == {<<Prog>> \o s : s \in SeqsUpTo(PrintTokens, MaxPrintArgs)}

\* program names that look like a terminator and like a flag
Progs == {Prog, <<"-", "-">>, <<"-", "v">>}

\* names as flag_new takes them unchecked: the empty name and a name with a dash
EdgeNames == {<<"v">>, <<>>, <<"-", "v">>}

\* a lone dash, a token with two dashes, a flag token and a positional token
EdgeTokens == {<<"-">>, <<"-", "-", "v">>, <<"-", "v">>, <<"7">>}

EdgeArgLists ==
    {<<q>> \o s : q \in Progs, s \in SeqsUpTo(EdgeTokens, MaxEdgeArgs)}

\* ---------------------------------------------------------------- actions
Init ==
    /\ flags = <<>>
    /\ flag_error = FLAG_NO_ERROR
    /\ flag_error_name = NULL
    /\ rest_argc = 0
    /\ rest_argv = NULLV
    /\ errno = ENONE
    /\ rets = <<>>
    /\ last = [op |-> "init"]
    /\ declared = <<>>

\* Declare that puts the new flag in front of the registry
Declare_at_front(flag, def) ==
    /\ flags_count < FLAGS_CAP
    /\ flags_count < MaxFlags
    /\ flags' = <<flag>> \o flags
    /\ last' = [op |-> "declare", pre |-> Flag_Context]
    /\ declared' = Append(declared, [type |-> flag.type, name |-> flag.name,
                                     desc |-> flag.desc, def |-> def])
    /\ UNCHANGED <<flag_error, flag_error_name, rest_argc, rest_argv, errno, rets>>

\* the tail of flag_new's callers: the new flag is the last of the registry
Declare(flag, def) ==
    /\ flags_count < FLAGS_CAP
    /\ flags_count < MaxFlags
    /\ flags' = Append(flags, flag)
    /\ last' = [op |-> "declare", pre |-> Flag_Context]
    /\ declared' = Append(declared, [type |-> flag.type, name |-> flag.name,
                                     desc |-> flag.desc, def |-> def])
    /\ UNCHANGED <<flag_error, flag_error_name, rest_argc, rest_argv, errno, rets>>

\* flag_bool without the assignment to flag->val
flag_bool_val_unset(name, def, desc) ==
    Declare([flag_new(FLAG_BOOL, name, desc) EXCEPT !.def.as_bool = def], def)

flag_bool(name, def, desc) ==
    Declare([flag_new(FLAG_BOOL, name, desc) EXCEPT !.def.as_bool = def, !.val.as_bool = def],
            def)

flag_uint64(name, def, desc) ==
    Declare([flag_new(FLAG_UINT64, name, desc) EXCEPT !.val.as_uint64 = def, !.def.as_uint64 = def],
            def)

flag_str(name, def, desc) ==
    Declare([flag_new(FLAG_STR, name, desc) EXCEPT !.val.as_str = def, !.def.as_str = def],
            def)

flag_parse(args) ==
    /\ Len(rets) < MaxCalls
    /\ LET r == flag_parse_result(Flag_Context, args)
       IN  /\ flags' = r.c.flags
           /\ flag_error' = r.c.flag_error
           /\ flag_error_name' = r.c.flag_error_name
           /\ rest_argc' = r.c.rest_argc
           /\ rest_argv' = r.c.rest_argv
           /\ errno' = r.c.errno
           /\ rets' = Append(rets, r.ret)
           /\ last' = [op |-> "flag_parse", args |-> args, pre |-> Flag_Context,
                       ret |-> r.ret, trace |-> r.trace, assert_ok |-> r.assert_ok,
                       argv |-> r.argv]
    /\ UNCHANGED declared

PrintOps == {"flag_print_error", "flag_print_options"}

\* the last operation was one of the printing functions
Printing == last.op \in PrintOps

\* fprintf(stream, ...): the text goes out on the stream. The record keeps
\* the text, the context before the first call of the current run of printing
\* calls, and for each printing function the text its latest earlier call in
\* this run wrote (as a one-element sequence, empty when there was none).
fprintf(op, text) ==
    last' = [op |-> op,
             pre |-> IF Printing THEN last.pre ELSE Flag_Context,
             out |-> text,
             earlier |-> [o \in PrintOps |->
                            IF ~Printing THEN <<>>
                            ELSE IF last.op = o THEN <<last.out>>
                            ELSE last.earlier[o]]]

\* flag_print_error that takes the error out of the context as it reports it
flag_print_error_clearing ==
    /\ fprintf("flag_print_error", flag_print_error_text(Flag_Context))
    /\ flag_error' = FLAG_NO_ERROR
    /\ UNCHANGED <<flags, flag_error_name, rest_argc, rest_argv, errno, rets,
                   declared>>

flag_print_error ==
    /\ fprintf("flag_print_error", flag_print_error_text(Flag_Context))
    /\ UNCHANGED <<flags, flag_error, flag_error_name, rest_argc, rest_argv, errno,
                   rets, declared>>

flag_print_options ==
    /\ fprintf("flag_print_options", flag_print_options_from(Flag_Context, 1))
    /\ UNCHANGED <<flags, flag_error, flag_error_name, rest_argc, rest_argv, errno,
                   rets, declared>>

Next ==
    \/ \E name \in Names, def \in BOOLEAN, desc \in Descs : flag_bool(name, def, desc)
    \/ \E name \in Names, def \in Uint64Defaults, desc \in Descs : flag_uint64(name, def, desc)
    \/ \E name \in Names, def \in StrDefaults, desc \in Descs : flag_str(name, def, desc)
    \/ \E args \in ArgLists : flag_parse(args)

Spec == Init /\ [][Next]_vars

\* the integer flags alone, with the value tokens that strtoull tells apart
NextNum ==
    \/ \E name \in Names, def \in Uint64Defaults, desc \in Descs : flag_uint64(name, def, desc)
    \/ \E args \in NumArgLists : flag_parse(args)

SpecNum == Init /\ [][NextNum]_vars

\* the tokens and names at the edge of the flag syntax, and any program name
NextEdge ==
    \/ \E name \in EdgeNames, def \in BOOLEAN, desc \in Descs : flag_bool(name, def, desc)
    \/ \E name \in EdgeNames, def \in StrDefaults, desc \in Descs : flag_str(name, def, desc)
    \/ \E args \in EdgeArgLists : flag_parse(args)

SpecEdge == Init /\ [][NextEdge]_vars

\* declaring, parsing and printing in any order
NextPrint ==
    \/ \E name \in Names, def \in BOOLEAN, desc \in Descs : flag_bool(name, def, desc)
    \/ \E name \in Names, def \in Uint64Defaults, desc \in Descs : flag_uint64(name, def, desc)
    \/ \E name \in Names, def \in StrDefaults, desc \in Descs : flag_str(name, def, desc)
    \/ \E args \in PrintArgLists : flag_parse(args)
    \/ flag_print_error
    \/ flag_print_options

SpecPrint == Init /\ [][NextPrint]_vars

\* ------------------------------------------------ vocabulary of the claims
\* the state is the one a flag_parse call has just left
Parsed == last.op = "flag_parse"

\* flag_parse took args[k] as a flag, terminator or positional argument
InFlagPosition(k) == \E j \in DOMAIN last.trace : last.trace[j] = k

\* args[k] is the last token flag_parse took in flag position
LastExamined(k) == Len(last.trace) > 0 /\ last.trace[Len(last.trace)] = k

StartsWithDash(t) == Len(t) > 0 /\ t[1] = "-"

\* args[k] was taken in flag position and is "-" followed by a name
FlagToken(k) ==
    /\ InFlagPosition(k)
    /\ StartsWithDash(last.args[k])
    /\ last.args[k] # <<"-", "-">>

\* flag i was declared before the call with the name that args[k] spells
Named(i, k) == i \in DOMAIN last.pre.flags /\ <<"-">> \o last.pre.flags[i].name = last.args[k]

\* the first declared flag with that name
FirstNamed(i, k) == Named(i, k) /\ \A j \in 1..(i - 1) : ~Named(j, k)

TypeOf(i) == last.pre.flags[i].type

\* the registry as the same call leaves it when handed only args[1..k]
FlagsAfter(k) == flag_parse_result(last.pre, SubSeq(last.args, 1, k)).c.flags

Values(fs) == [i \in DOMAIN fs |-> fs[i].val]

UniqueNames(fs) == \A i, j \in DOMAIN fs : fs[i].name = fs[j].name => i = j

\* ------------------------------------------------------------------- C1
\* C1: when flag_parse takes in flag position a token that does not start
\* with '-', it returns true, rest_argv is the argument list from that token
\* on and rest_argc its length, and the flag values are those that the tokens
\* before it produced: nothing at or after it is applied to a flag.
C1_PositionalEndsParsing ==
    Parsed =>
        \A k \in 2..Len(last.args) :
            (InFlagPosition(k) /\ ~StartsWithDash(last.args[k])) =>
                /\ last.ret = TRUE
                /\ rest_argv = SubSeq(last.args, k, Len(last.args))
                /\ rest_argc = Len(last.args) - k + 1
                /\ LastExamined(k)
                /\ Values(flags) = Values(FlagsAfter(k - 1))

\* a flag was applied, then a positional token ended the parse, and the "-v"
\* after it left the declared boolean flag v false
C1_Witness ==
    /\ Parsed
    /\ \E k \in 3..(Len(last.args) - 1) :
        /\ InFlagPosition(k)
        /\ ~StartsWithDash(last.args[k])
        /\ last.args[k + 1] = <<"-", "v">>
        /\ \E i \in DOMAIN flags :
            /\ flags[i].name = <<"v">>
            /\ flags[i].type = FLAG_BOOL
            /\ flags[i].val.as_bool = FALSE
        /\ rest_argc = 2

\* ------------------------------------------------------------------- C2
\* C2: when flag_parse takes in flag position the token "--", it returns
\* true, rest_argv is the argument list after the terminator and rest_argc
\* its length, and no token after the terminator is applied to a flag.
C2_TerminatorEndsParsing ==
    Parsed =>
        \A k \in 2..Len(last.args) :
            (InFlagPosition(k) /\ last.args[k] = <<"-", "-">>) =>
                /\ last.ret = TRUE
                /\ rest_argv = SubSeq(last.args, k + 1, Len(last.args))
                /\ rest_argc = Len(last.args) - k
                /\ LastExamined(k)
                /\ Values(flags) = Values(FlagsAfter(k - 1))

\* ["p", "--", "-v"] with a boolean flag v declared false: v stays false and
\* the leftovers are ["-v"]
C2_Witness ==
    /\ Parsed
    /\ InFlagPosition(2)
    /\ last.args = <<Prog, <<"-", "-">>, <<"-", "v">>>>
    /\ rest_argv = <<<<"-", "v">>>>
    /\ \E i \in DOMAIN flags :
        /\ flags[i].name = <<"v">>
        /\ flags[i].type = FLAG_BOOL
        /\ flags[i].val.as_bool = FALSE

\* ------------------------------------------------------------------- C3
\* C3: when flag_parse takes in flag position a dash-prefixed token other
\* than "--" whose text after the dash is no declared flag's name, it returns
\* false with FLAG_ERROR_UNKNOWN and that text as the error name, and no later
\* token is examined or applied.
C3_UnknownFlag ==
    Parsed =>
        \A k \in 2..Len(last.args) :
            (FlagToken(k) /\ \A i \in DOMAIN last.pre.flags : ~Named(i, k)) =>
                /\ last.ret = FALSE
                /\ flag_error = FLAG_ERROR_UNKNOWN
                /\ <<"-">> \o flag_error_name = last.args[k]
                /\ LastExamined(k)
                /\ Values(flags) = Values(FlagsAfter(k - 1))

\* an undeclared "-n" is followed by "-v", and the declared boolean flag v
\* is still false
C3_Witness ==
    /\ Parsed
    /\ \E k \in 2..(Len(last.args) - 1) :
        /\ FlagToken(k)
        /\ \A i \in DOMAIN last.pre.flags : ~Named(i, k)
        /\ last.args[k + 1] = <<"-", "v">>
        /\ \E i \in DOMAIN flags :
            /\ flags[i].name = <<"v">>
            /\ flags[i].type = FLAG_BOOL
            /\ flags[i].val.as_bool = FALSE
    /\ flag_error_name = <<"n">>

\* ------------------------------------------------------------------- C4
\* C4: when a token taken in flag position names a declared Boolean flag,
\* that flag becomes true and no value token is consumed, the next token being
\* taken in flag position itself; and no flag_parse call turns a Boolean flag
\* that was true into false.
C4_BooleanSwitch ==
    Parsed =>
        /\ \A k \in 2..Len(last.args) : \A i \in DOMAIN last.pre.flags :
            (FlagToken(k) /\ Named(i, k) /\ TypeOf(i) = FLAG_BOOL) =>
                /\ FlagsAfter(k)[i].val.as_bool = TRUE
                /\ k < Len(last.args) => InFlagPosition(k + 1)
        /\ \A i \in DOMAIN last.pre.flags :
            (TypeOf(i) = FLAG_BOOL /\ last.pre.flags[i].val.as_bool = TRUE) =>
                flags[i].val.as_bool = TRUE

\* C4 for the registries in which no two flags share a name
C4_BooleanSwitchUniqueNames == UniqueNames(flags) => C4_BooleanSwitch

\* ------------------------------------------------------------------- C5
\* the name of flag i occurs nowhere on the command line as "-name"
Absent(i) == \A k \in 2..Len(last.args) : last.args[k] # <<"-">> \o flags[i].name

\* C5 as stated: after flag_parse, every Boolean flag that the command line
\* does not name has its declared default as current value.
C5_AbsentBooleanIsDefault ==
    Parsed =>
        \A i \in DOMAIN flags :
            (flags[i].type = FLAG_BOOL /\ Absent(i)) =>
                flags[i].val.as_bool = flags[i].def.as_bool

\* C5, amended: after flag_parse, every Boolean flag that the command line
\* does not name has the current value it had before the call, and after the
\* first flag_parse call of the process that value is its declared default.
C5_AbsentBooleanIsUnchanged ==
    Parsed =>
        \A i \in DOMAIN flags :
            (flags[i].type = FLAG_BOOL /\ Absent(i)) =>
                /\ flags[i].val.as_bool = last.pre.flags[i].val.as_bool
                /\ Len(rets) = 1 => flags[i].val.as_bool = flags[i].def.as_bool

\* a first call that names the flag n and not the Boolean flag v, declared
\* true, and a later call that names neither after v was set
C5_Witness ==
    /\ Parsed
    /\ \E i \in DOMAIN flags :
        /\ flags[i].type = FLAG_BOOL
        /\ flags[i].name = <<"v">>
        /\ Absent(i)
        /\ flags[i].def.as_bool = TRUE
        /\ flags[i].val.as_bool = TRUE
        /\ Len(rets) = 1
        /\ \E k \in 2..Len(last.args) : FlagToken(k) /\ last.args[k] = <<"-", "n">>

\* ---------------------------------------------------------------- C6, C7
AllDigits(t) == Len(t) > 0 /\ \A j \in DOMAIN t : isdigit(t[j])

\* the number that a string of decimal digits denotes
NumberOf(t) == Norm([j \in DOMAIN t |-> DigitVal(t[j])])

\* args[k] names the UnsignedInteger64 flag i, no flag declared before i has
\* that name, and args[k + 1] is there to be its value
Uint64Token(i, k) ==
    /\ k < Len(last.args)
    /\ FlagToken(k)
    /\ FirstNamed(i, k)
    /\ TypeOf(i) = FLAG_UINT64

\* C6: a value token for an UnsignedInteger64 flag that is empty or holds any
\* character other than a decimal digit makes flag_parse return false with
\* FLAG_ERROR_INVALID_NUMBER and the flag's name, the flag's value unchanged.
C6_NonDigitIsInvalidNumber ==
    Parsed =>
        \A k \in 2..Len(last.args) : \A i \in DOMAIN last.pre.flags :
            (Uint64Token(i, k) /\ ~AllDigits(last.args[k + 1])) =>
                /\ last.ret = FALSE
                /\ flag_error = FLAG_ERROR_INVALID_NUMBER
                /\ flag_error_name = last.pre.flags[i].name
                /\ LastExamined(k)
                /\ flags[i].val = FlagsAfter(k - 1)[i].val

\* blanks, then at most one sign, then decimal digits and nothing else
StrtoullForm(t) ==
    LET i0 == SkipSpace(t, 1)
        i1 == IF i0 <= Len(t) /\ t[i0] \in {"+", "-"} THEN i0 + 1 ELSE i0
    IN  AllDigits(SubSeq(t, i1, Len(t)))

\* what the code does reject: the value tokens that are not of that form
C6_NotStrtoullFormIsInvalidNumber ==
    Parsed =>
        \A k \in 2..Len(last.args) : \A i \in DOMAIN last.pre.flags :
            (Uint64Token(i, k) /\ ~StrtoullForm(last.args[k + 1])) =>
                /\ last.ret = FALSE
                /\ flag_error = FLAG_ERROR_INVALID_NUMBER
                /\ flag_error_name = last.pre.flags[i].name
                /\ LastExamined(k)
                /\ flags[i].val = FlagsAfter(k - 1)[i].val

\* C7: a value token of decimal digits for an UnsignedInteger64 flag makes
\* flag_parse fail with FLAG_ERROR_INTEGER_OVERFLOW exactly when its number
\* exceeds 2^64 - 1, and otherwise that number is stored in the flag; in every
\* call of a sequence of calls.
C7_OverflowIffTooLarge ==
    Parsed =>
        \A k \in 2..Len(last.args) : \A i \in DOMAIN last.pre.flags :
            (Uint64Token(i, k) /\ AllDigits(last.args[k + 1])) =>
                IF Leq(NumberOf(last.args[k + 1]), ULLONG_MAX)
                THEN /\ FlagsAfter(k + 1)[i].val.as_uint64 = NumberOf(last.args[k + 1])
                     /\ ~(LastExamined(k) /\ ~last.ret
                            /\ flag_error = FLAG_ERROR_INTEGER_OVERFLOW)
                ELSE /\ LastExamined(k)
                     /\ last.ret = FALSE
                     /\ flag_error = FLAG_ERROR_INTEGER_OVERFLOW
                     /\ flag_error_name = last.pre.flags[i].name
                     /\ flags[i].val = FlagsAfter(k - 1)[i].val

\* C7 for the calls that start with errno other than ERANGE
C7_OverflowIffTooLargeFreshErrno ==
    Parsed => (last.pre.errno # ERANGE => C7_OverflowIffTooLarge)

\* ------------------------------------------------------------------- C8
\* C8: when the last token of the argument list is taken in flag position and
\* names a declared String or UnsignedInteger64 flag, flag_parse returns
\* false with FLAG_ERROR_NO_VALUE and that name as the error name, and every
\* such flag keeps the value it had when the token was reached.
C8_MissingValue ==
    Parsed =>
        \A k \in 2..Len(last.args) :
            (/\ k = Len(last.args)
             /\ FlagToken(k)
             /\ \E i \in DOMAIN last.pre.flags :
                    Named(i, k) /\ TypeOf(i) \in {FLAG_STR, FLAG_UINT64}) =>
                /\ last.ret = FALSE
                /\ flag_error = FLAG_ERROR_NO_VALUE
                /\ <<"-">> \o flag_error_name = last.args[k]
                /\ \A i \in DOMAIN last.pre.flags :
                    (Named(i, k) /\ TypeOf(i) \in {FLAG_STR, FLAG_UINT64}) =>
                        flags[i].val = FlagsAfter(k - 1)[i].val

\* ["p", "-n", "7", "-n"] with a String flag n: the second "-n" has no value
\* and n keeps the "7" that the first one gave it
C8_Witness ==
    /\ Parsed
    /\ last.ret = FALSE
    /\ flag_error = FLAG_ERROR_NO_VALUE
    /\ \E i \in DOMAIN flags :
        /\ Named(i, Len(last.args))
        /\ FlagToken(Len(last.args))
        /\ flags[i].type = FLAG_STR
        /\ flags[i].val.as_str = <<"7">>
        /\ last.pre.flags[i].val.as_str = NULL

\* ------------------------------------------------------------------- C9
\* C9: when a token taken in flag position names a declared String flag and
\* another token follows, that token becomes the flag's value verbatim and is
\* consumed (it is not taken in flag position), and the token after it is the
\* next one taken in flag position.
C9_StringTakesNextToken ==
    Parsed =>
        \A k \in 2..(Len(last.args) - 1) : \A i \in DOMAIN last.pre.flags :
            (FlagToken(k) /\ Named(i, k) /\ TypeOf(i) = FLAG_STR) =>
                /\ FlagsAfter(k + 1)[i].val.as_str = last.args[k + 1]
                /\ ~InFlagPosition(k + 1)
                /\ k + 2 <= Len(last.args) => InFlagPosition(k + 2)

\* C9 for the registries in which no two flags share a name
C9_StringTakesNextTokenUniqueNames == UniqueNames(flags) => C9_StringTakesNextToken

\* a String flag took "--" or a flag's name as its value and the parse went on
C9_UniqueNamesWitness ==
    /\ Parsed
    /\ UniqueNames(flags)
    /\ \E k \in 2..(Len(last.args) - 2) : \E i \in DOMAIN flags :
        /\ FlagToken(k) /\ Named(i, k) /\ TypeOf(i) = FLAG_STR
        /\ last.args[k + 1] = <<"-", "-">>
        /\ flags[i].val.as_str = <<"-", "-">>
        /\ InFlagPosition(k + 2)
        /\ rest_argc = 1

\* ------------------------------------------------------------------ C10
\* C10: after a flag_parse call that returned false and a next flag_parse
\* call that returned true, the error kept in the context is FLAG_NO_ERROR.
C10_SuccessClearsError ==
    (/\ Parsed
     /\ Len(rets) >= 2
     /\ rets[Len(rets) - 1] = FALSE
     /\ rets[Len(rets)] = TRUE) =>
        flag_error = FLAG_NO_ERROR

\* what the code does keep: the error slot is written by failing calls only
C10_ErrorSlotWrittenOnFailureOnly ==
    (Parsed /\ last.ret = TRUE) =>
        /\ flag_error = last.pre.flag_error
        /\ flag_error_name = last.pre.flag_error_name

\* ------------------------------------------------------------------ C11
\* the outcome of the same call when handed only args[1..m]
CallOn(m) == flag_parse_result(last.pre, SubSeq(last.args, 1, m))

\* C11: when flag_parse returns false, the error kept is that of the last
\* token it took in flag position, before which the call met no error (the
\* call on the tokens before it returns true); the values that the earlier
\* tokens assigned are kept, and the outcome is that of the call handed only
\* the tokens consumed up to the error: no later token changes a flag value.
C11_FirstErrorNoRollback ==
    (Parsed /\ last.ret = FALSE) =>
        /\ Len(last.trace) > 0
        /\ LET k == last.trace[Len(last.trace)]
               e == last.argv - 1
           IN  /\ FlagToken(k)
               /\ flag_error \in {FLAG_ERROR_UNKNOWN, FLAG_ERROR_NO_VALUE,
                                  FLAG_ERROR_INVALID_NUMBER, FLAG_ERROR_INTEGER_OVERFLOW}
               /\ flag_error = FLAG_ERROR_UNKNOWN <=>
                      \A i \in DOMAIN last.pre.flags : ~Named(i, k)
               /\ <<"-">> \o flag_error_name = last.args[k]
               /\ CallOn(k - 1).ret = TRUE
               /\ \A i \in DOMAIN flags :
                      (~Named(i, k) \/ UniqueNames(flags)) =>
                          flags[i].val = CallOn(k - 1).c.flags[i].val
               /\ e \in k..Len(last.args)
               /\ \A m \in e..Len(last.args) :
                      /\ CallOn(m).ret = FALSE
                      /\ CallOn(m).c.flag_error = flag_error
                      /\ CallOn(m).c.flag_error_name = flag_error_name
                      /\ Values(CallOn(m).c.flags) = Values(flags)

\* a Boolean flag was set by the first token, the second token was in error,
\* a third token follows it, and the flag is still set
C11_Witness ==
    /\ Parsed
    /\ last.ret = FALSE
    /\ Len(last.args) = 4
    /\ last.trace = <<2, 3>>
    /\ \E i \in DOMAIN flags :
        /\ flags[i].type = FLAG_BOOL
        /\ Named(i, 2)
        /\ last.pre.flags[i].val.as_bool = FALSE
        /\ flags[i].val.as_bool = TRUE

\* ------------------------------------------------------------------ C12
\* args[j] was consumed as the value of the flag token args[k]: no token from
\* k + 1 to j was taken in flag position, and args[k] names at least j - k
\* declared String or UnsignedInteger64 flags
ValueOf(j, k) ==
    /\ k < j
    /\ FlagToken(k)
    /\ \A m \in (k + 1)..j : ~InFlagPosition(m)
    /\ Cardinality({i \in DOMAIN last.pre.flags :
                        Named(i, k) /\ TypeOf(i) \in {FLAG_STR, FLAG_UINT64}}) >= j - k

\* C12: after a flag_parse that returned true, rest_argv is the suffix of the
\* argument list of length rest_argc; every token before it, the program name
\* apart, is a flag token, a flag's value or the terminator (and the
\* terminator only as the last of them); and if no positional token and no
\* terminator was taken in flag position the leftovers are empty.
C12_LeftoversAreSuffix ==
    (Parsed /\ last.ret = TRUE) =>
        LET n == Len(last.args)
            s == n - rest_argc + 1
        IN  /\ rest_argc \in 0..(n - 1)
            /\ Len(rest_argv) = rest_argc
            /\ rest_argv = SubSeq(last.args, s, n)
            /\ \A j \in 2..(s - 1) :
                \/ FlagToken(j)
                \/ j = s - 1 /\ InFlagPosition(j) /\ last.args[j] = <<"-", "-">>
                \/ \E k \in 2..(j - 1) : ValueOf(j, k)
            /\ \A j \in s..n : InFlagPosition(j) => (j = s /\ ~StartsWithDash(last.args[j]))
            /\ (\A j \in 2..n : InFlagPosition(j) => FlagToken(j)) => rest_argc = 0

\* ["p", "-v", "-n", "7"] with a Boolean v and a value-taking n: all tokens
\* are consumed and nothing is left over, after a call that left something
C12_Witness ==
    /\ Parsed
    /\ last.ret = TRUE
    /\ last.args = <<Prog, <<"-", "v">>, <<"-", "n">>, <<"7">>>>
    /\ last.trace = <<2, 3>>
    /\ rest_argc = 0
    /\ last.pre.rest_argc > 0

\* ------------------------------------------------------------------ C13
\* flag j was declared after a flag of the same name
Shadowed(j) == \E i \in 1..(j - 1) : flags[i].name = flags[j].name

\* C13: a flag declared after another of the same name is unreachable and has
\* its default as value after any flag_parse, and a flag token consumes at
\* most one value token: the next token taken in flag position is at most two
\* places after it.
C13_FirstDeclaredWins ==
    Parsed =>
        /\ \A j \in DOMAIN flags : Shadowed(j) => flags[j].val = flags[j].def
        /\ \A t \in 1..(Len(last.trace) - 1) :
                last.trace[t + 1] <= last.trace[t] + 2
        /\ \A k \in 2..Len(last.args) :
                (FlagToken(k) /\ LastExamined(k)) => last.argv <= k + 2

\* what the code does: every flag that the token names is applied, in the
\* order of declaration, each String or UnsignedInteger64 one taking the next
\* token as its value
C13_EveryNamedFlagApplied ==
    (Parsed /\ last.ret = TRUE) =>
        \A k \in 2..Len(last.args) : \A i \in DOMAIN last.pre.flags :
            (FlagToken(k) /\ Named(i, k)) =>
                LET before == Cardinality({j \in 1..i : Named(j, k)
                                    /\ TypeOf(j) \in {FLAG_STR, FLAG_UINT64}})
                    taken == Cardinality({j \in DOMAIN last.pre.flags : Named(j, k)
                                    /\ TypeOf(j) \in {FLAG_STR, FLAG_UINT64}})
                    after == CallOn(k + taken).c.flags[i].val
                IN  /\ \A m \in (k + 1)..(k + taken) : ~InFlagPosition(m)
                    /\ TypeOf(i) = FLAG_BOOL => after.as_bool = TRUE
                    /\ TypeOf(i) = FLAG_STR => after.as_str = last.args[k + before]
                    /\ TypeOf(i) = FLAG_UINT64 =>
                            after.as_uint64 = strtoull(last.args[k + before], ENONE).result

\* two flags of one name each took a value from one flag token
C13_EveryNamedFlagAppliedWitness ==
    /\ Parsed
    /\ last.ret = TRUE
    /\ Len(flags) = 2
    /\ ~UniqueNames(flags)
    /\ flags[1].type = FLAG_STR
    /\ flags[2].type = FLAG_STR
    /\ last.trace = <<2>>
    /\ Len(last.args) = 4
    /\ flags[1].val.as_str = last.args[3]
    /\ flags[2].val.as_str = last.args[4]

\* ------------------------------------------------------------------ C14
\* the outcome of the same call with q in the place of the program name
CallAs(q) == flag_parse_result(last.pre, <<q>> \o Tail(last.args))

\* C14: the first element of the argument list is discarded unexamined: with
\* any other first element the call returns the same value and leaves the
\* same flags, error, leftovers and errno, and no token taken in flag position
\* is the first element.
C14_ProgramNameIgnored ==
    Parsed =>
        /\ ~InFlagPosition(1)
        /\ \A q \in Progs :
            /\ CallAs(q).ret = last.ret
            /\ CallAs(q).c = Flag_Context
            /\ CallAs(q).trace = last.trace

\* the program name is "-v" or "--", a Boolean flag v is declared and still
\* false, and the token after the program name was parsed as a flag
C14_Witness ==
    /\ Parsed
    /\ last.args[1] \in {<<"-", "v">>, <<"-", "-">>}
    /\ last.trace = <<2, 3>>
    /\ last.ret = TRUE
    /\ \E i \in DOMAIN flags :
        /\ flags[i].name = <<"v">>
        /\ flags[i].type = FLAG_BOOL
        /\ flags[i].val.as_bool = FALSE

\* ------------------------------------------------------------------ C15
\* C15: flag_print_error and flag_print_options change nothing: after any
\* run of calls to either, the registry, the error kind and name and the
\* leftover state are what they were before the run, and a call writes the
\* same text as the previous call of the same function in the run.
C15_PrintingChangesNothing ==
    Printing =>
        /\ Flag_Context = last.pre
        /\ last.earlier[last.op] \in {<<>>, <<last.out>>}

\* flag_print_error is called again after flag_print_options came between,
\* on a context that holds an error and a flag
C15_Witness ==
    /\ last.op = "flag_print_error"
    /\ last.earlier["flag_print_error"] # <<>>
    /\ last.earlier["flag_print_options"] # <<>>
    /\ flag_error = FLAG_ERROR_NO_VALUE
    /\ flags_count > 0

\* ------------------------------------------------------------------ C16
\* the member of a Flag_Value that the type selects
Member(type, v) ==
    CASE type = FLAG_BOOL -> v.as_bool
      [] type = FLAG_UINT64 -> v.as_uint64
      [] type = FLAG_STR -> v.as_str

RECURSIVE LinesOf(_, _)
\* the lines of a text, without their newlines; cur is the line being read
LinesOf(text, cur) ==
    IF Len(text) = 0 THEN (IF Len(cur) = 0 THEN <<>> ELSE <<cur>>)
    ELSE IF text[1] = "\n" THEN <<cur>> \o LinesOf(Tail(text), <<>>)
    ELSE LinesOf(Tail(text), Append(cur, text[1]))

RECURSIVE Headings(_)
\* the names on the lines of a listing that start with four blanks and a dash
Headings(lines) ==
    IF Len(lines) = 0 THEN <<>>
    ELSE IF Len(lines[1]) >= 5 /\ SubSeq(lines[1], 1, 5) = <<" ", " ", " ", " ", "-">>
         THEN <<SubSeq(lines[1], 6, Len(lines[1]))>> \o Headings(Tail(lines))
    ELSE Headings(Tail(lines))

\* C16: the registry holds one flag per declaring call, in the order of the
\* calls, each with the type, name, description and default of its call; a
\* declaration appends one flag whose current value is its default and
\* leaves the flags before it as they were, current values included; and
\* flag_print_options lists the names in the order of the calls.
C16_DeclarationOrder ==
    /\ Len(flags) = Len(declared)
    /\ \A i \in DOMAIN flags :
        /\ flags[i].type = declared[i].type
        /\ flags[i].name = declared[i].name
        /\ flags[i].desc = declared[i].desc
        /\ Member(flags[i].type, flags[i].def) = declared[i].def
    /\ last.op = "declare" =>
        /\ Len(flags) = Len(last.pre.flags) + 1
        /\ SubSeq(flags, 1, Len(flags) - 1) = last.pre.flags
        /\ Member(flags[Len(flags)].type, flags[Len(flags)].val) = declared[Len(flags)].def
    /\ last.op = "flag_print_options" =>
        Headings(LinesOf(last.out, <<>>)) = [i \in DOMAIN declared |-> declared[i].name]

\* a flag of another type and name was declared after a parse had set the
\* first flag away from its default
C16_Witness ==
    /\ last.op = "declare"
    /\ Len(flags) = 2
    /\ flags[1].type = FLAG_BOOL
    /\ flags[1].val.as_bool # flags[1].def.as_bool
    /\ flags[2].type = FLAG_UINT64
    /\ flags[2].name # flags[1].name
    /\ rets = <<TRUE>>

\* the two flags of C16_Witness are listed by flag_print_options
C16_ListingWitness ==
    /\ last.op = "flag_print_options"
    /\ Len(flags) = 2
    /\ flags[1].type = FLAG_BOOL
    /\ flags[2].type = FLAG_UINT64
    /\ flags[2].name # flags[1].name

\* ------------------------------------------------------------------ C17
\* C17: whether flag_parse succeeds or fails, the registry has the flags it
\* had before the call, in the same order, each with the type, name,
\* description and default value it had; a flag differs from what it was in
\* its current value at most.
C17_ParseKeepsDeclarations ==
    Parsed =>
        /\ Len(flags) = Len(last.pre.flags)
        /\ \A i \in DOMAIN flags :
            /\ flags[i].type = last.pre.flags[i].type
            /\ flags[i].name = last.pre.flags[i].name
            /\ flags[i].desc = last.pre.flags[i].desc
            /\ flags[i].def = last.pre.flags[i].def
            /\ [flags[i] EXCEPT !.val = last.pre.flags[i].val] = last.pre.flags[i]

\* a failing call that gave a String flag a value and set a Boolean flag
\* before it met the error
C17_Witness ==
    /\ Parsed
    /\ last.ret = FALSE
    /\ Len(flags) = 2
    /\ \E i, j \in DOMAIN flags :
        /\ flags[i].type = FLAG_STR
        /\ flags[i].val.as_str # last.pre.flags[i].val.as_str
        /\ flags[i].def.as_str = NULL
        /\ flags[j].type = FLAG_BOOL
        /\ flags[j].val.as_bool # last.pre.flags[j].val.as_bool

\* ------------------------------------------------------------------ C18
\* C18: a failing flag_parse leaves rest_argc and rest_argv as they were
\* before the call; as long as no call has succeeded they are 0 and empty.
C18_FailureKeepsLeftovers ==
    /\ (Parsed /\ last.ret = FALSE) =>
        /\ rest_argc = last.pre.rest_argc
        /\ rest_argv = last.pre.rest_argv
    /\ (\A n \in DOMAIN rets : rets[n] = FALSE) =>
        /\ rest_argc = 0
        /\ rest_argv = NULLV

\* a call leaves two leftovers, and the next call, given three tokens, fails
\* at the first of them
C18_Witness ==
    /\ Parsed
    /\ rets = <<TRUE, FALSE>>
    /\ rest_argc = 2
    /\ Len(last.args) = 4
    /\ last.trace = <<2>>
    /\ rest_argv # Suffix(last.args, 3)

\* ------------------------------------------------------------------ C19
\* the local argc of flag_parse at its return: flag_shift_args moves argv and
\* argc together, so argc is the number of elements from argv on
ArgcAtReturn == Len(last.args) - (last.argv - 1)

\* C19: in every call of flag_parse on an argument list of at least one
\* element, whatever the registry, the assertion of flag_shift_args holds
\* each time, argc does not go below zero, every flag has one of the three
\* types of the switch, and every pass of the while loop takes a token further
\* on than the pass before, within the argument list.
C19_ParseIsSafe ==
    (Parsed /\ Len(last.args) >= 1) =>
        /\ last.assert_ok
        /\ ArgcAtReturn >= 0
        /\ \A i \in DOMAIN last.pre.flags :
            last.pre.flags[i].type \in {FLAG_BOOL, FLAG_UINT64, FLAG_STR}
        /\ \A n \in DOMAIN last.trace :
            /\ last.trace[n] \in 2..Len(last.args)
            /\ n > 1 => last.trace[n] > last.trace[n - 1]
            /\ last.argv > last.trace[n]

\* two String flags of one name and ["p", "-v", "7"]: the first flag takes
\* the last token and the second finds none left
C19_Witness ==
    /\ Parsed
    /\ Len(flags) = 2
    /\ flags[1].type = FLAG_STR
    /\ flags[2].type = FLAG_STR
    /\ flags[1].name = flags[2].name
    /\ last.args = <<Prog, <<"-">> \o flags[1].name, <<"7">>>>
    /\ flag_error = FLAG_ERROR_NO_VALUE
    /\ ArgcAtReturn = 0

\* ------------------------------------------------------------------ C20
LoneDash == <<"-">>
TwoDashesV == <<"-", "-", "v">>

\* the name the claim gives for the token: the empty name for "-", "-v" for "--v"
LookedUpName(t) == IF t = LoneDash THEN <<>> ELSE <<"-", "v">>

\* the flags declared before the call under the given name
DeclaredAs(name) == {i \in DOMAIN last.pre.flags : last.pre.flags[i].name = name}

\* C20: a token "-" taken in flag position is looked up as the flag with the
\* empty name, and a token "--v" as the flag named "-v". When no such flag is
\* declared flag_parse returns false there with FLAG_ERROR_UNKNOWN and that
\* name as the error name. When one is declared the token acts as that flag:
\* the first flag of the name is set if it is a Boolean and takes the next
\* token (or fails for want of one) if it is a String, and the token leaves
\* nothing behind as a positional argument would.
C20_DashTokensAreFlags ==
    Parsed =>
        \A k \in 2..Len(last.args) :
            (InFlagPosition(k) /\ last.args[k] \in {LoneDash, TwoDashesV}) =>
                LET name == LookedUpName(last.args[k])
                    named == DeclaredAs(name)
                IN  IF named = {}
                    THEN /\ last.ret = FALSE
                         /\ flag_error = FLAG_ERROR_UNKNOWN
                         /\ flag_error_name = name
                         /\ LastExamined(k)
                    ELSE LET i == CHOOSE i \in named : \A j \in named : i <= j
                         IN  /\ TypeOf(i) = FLAG_BOOL =>
                                    FlagsAfter(k)[i].val.as_bool = TRUE
                             /\ (TypeOf(i) = FLAG_STR /\ k < Len(last.args)) =>
                                    FlagsAfter(k + 1)[i].val.as_str = last.args[k + 1]
                             /\ (TypeOf(i) = FLAG_STR /\ k = Len(last.args)) =>
                                    /\ last.ret = FALSE
                                    /\ flag_error = FLAG_ERROR_NO_VALUE
                                    /\ flag_error_name = name
                             /\ (LastExamined(k) /\ last.ret = TRUE) => rest_argc = 0

\* "-" sets the Boolean flag declared with the empty name, and "--v" after it
\* is an unknown flag "-v" although a flag v is declared
C20_Witness ==
    /\ Parsed
    /\ Len(last.args) = 3
    /\ last.args[2] = LoneDash
    /\ last.args[3] = TwoDashesV
    /\ last.trace = <<2, 3>>
    /\ \E i, j \in DOMAIN flags :
        /\ flags[i].name = <<>>
        /\ flags[i].type = FLAG_BOOL
        /\ last.pre.flags[i].val.as_bool = FALSE
        /\ flags[i].val.as_bool = TRUE
        /\ flags[j].name = <<"v">>
    /\ last.ret = FALSE
    /\ flag_error = FLAG_ERROR_UNKNOWN
    /\ flag_error_name = <<"-", "v">>

\* "-" is an unknown flag with the empty name, and "--v" names a declared
\* String flag "-v" that takes the next token
C20_OtherWitness ==
    /\ Parsed
    /\ Len(last.args) = 3
    /\ last.args[2] = TwoDashesV
    /\ last.args[3] = LoneDash
    /\ \E i \in DOMAIN flags :
        /\ flags[i].name = <<"-", "v">>
        /\ flags[i].type = FLAG_STR
        /\ flags[i].val.as_str = LoneDash
    /\ last.ret = TRUE

\* "-" alone, no flag having the empty name
C20_UnknownWitness ==
    /\ Parsed
    /\ flags_count > 0
    /\ last.args[Len(last.args)] = LoneDash
    /\ LastExamined(Len(last.args))
    /\ flag_error = FLAG_ERROR_UNKNOWN
    /\ flag_error_name = <<>>

====
